---- MODULE Spec2Model ----
(***************************************************************************)
(* Integrated hallucination detection: the two scoring backends, the       *)
(* ensemble combiner of IntegratedHallucinationEvaluator, the RAGtruth     *)
(* sample loader and the two dataset-evaluation harnesses.                 *)
(*                                                                         *)
(* Scores are exact rationals [n |-> numerator, d |-> denominator] in      *)
(* lowest terms; Python's None is the record None.                         *)
(***************************************************************************)
EXTENDS Integers, Sequences, FiniteSets, TLC

VARIABLES
    pc,              \* position of the caller of the evaluator
    hhem_evaluator,  \* IntegratedHallucinationEvaluator.hhem_evaluator is set
    qwen_evaluator,  \* IntegratedHallucinationEvaluator.qwen_evaluator is set
    call,            \* arguments and backend responses of the latest evaluate
    ret,             \* value returned by the latest evaluate (None: none)
    harness,         \* which harness runs: "ragtruth", "large" or "none"
    hpc,             \* position of the harness: "idle", "loop", "done"
    run_method,      \* evaluation method of the run
    index,           \* number of samples the loop has taken
    metrics,         \* EvaluationMetrics / EvaluationResults of the run
    successes,       \* hhem_successes, qwen_successes, ensemble_successes
    step,            \* what the loop body did with the latest sample
    derived,         \* values read from the EvaluationMetrics properties
    responses,       \* RAGtruthLoader._responses_cache, in file order
    sources,         \* RAGtruthLoader._sources_cache, in file order
    rng,             \* state of the process-wide generator of module random
    lpc,             \* position of the caller of get_samples
    query,           \* arguments of the latest get_samples and its joined list
    samples,         \* list returned by the latest get_samples
    texts_read,      \* a source_info and the source_texts read from it
    batch,           \* the running batch_evaluate: its arguments, position and results
    ensemble         \* a result handed to _compute_ensemble_result and what came back

evalVars == <<pc, hhem_evaluator, qwen_evaluator, call, ret>>

harnessVars == <<harness, hpc, run_method, index, metrics, successes, step>>

metricVars == <<derived>>

loaderVars == <<responses, sources, rng, lpc, query, samples>>

sampleVars == <<texts_read>>

batchVars == <<batch>>

ensembleVars == <<ensemble>>

vars == <<evalVars, harnessVars, metricVars, loaderVars, sampleVars, batchVars,
          ensembleVars>>

-----------------------------------------------------------------------------
(* Bounds *)

\* scores and confidences are drawn from the grid 0/Grid, 1/Grid, .., Grid/Grid
Grid == 10

\* a harness run evaluates at most MaxSamples samples
MaxSamples == 2

\* confusion counts handed to EvaluationMetrics range over 0..MaxCount
MaxCount == 4

\* the response file holds at most MaxResponses records
MaxResponses == 2

\* the generator of module random has RngStates states
RngStates == 2

-----------------------------------------------------------------------------
(* Exact rational arithmetic standing for Python floats *)

None == [none |-> TRUE]

Abs(x) == IF x < 0 THEN 0 - x ELSE x

RECURSIVE GCD(_, _)
GCD(a, b) == IF b = 0 THEN a ELSE GCD(b, a % b)

\* the rational n/d (d # 0) in lowest terms with a positive denominator
Rat(n, d) ==
    LET g == GCD(Abs(n), Abs(d))
        s == IF d < 0 THEN 0 - 1 ELSE 1
    IN  [n |-> (s * n) \div g, d |-> (s * d) \div g]

RAdd(a, b) == Rat(a.n * b.d + b.n * a.d, a.d * b.d)
RSub(a, b) == Rat(a.n * b.d - b.n * a.d, a.d * b.d)
RMul(a, b) == Rat(a.n * b.n, a.d * b.d)
RDiv(a, b) == Rat(a.n * b.d, a.d * b.n)
RLt(a, b) == a.n * b.d < b.n * a.d
RLe(a, b) == a.n * b.d <= b.n * a.d
RGt(a, b) == RLt(b, a)
RGe(a, b) == RLe(b, a)

Zero == Rat(0, 1)
One == Rat(1, 1)

\* Python truthiness of an Optional[float]: None and 0.0 are falsy
Truthy(x) == x # None /\ x # Zero

GridValues == {Rat(k, Grid) : k \in 0..Grid}

-----------------------------------------------------------------------------
(* Inputs of a backend call *)

\* a JSON field that is absent from the payload (dict.get falls to its default)
Missing == [missing |-> TRUE]

\* generated_text: "", whitespace only, or real text
GeneratedTexts == {"empty", "blank", "text"}

\* source_texts: [], a list of whitespace-only strings, or a list with real text
SourceTexts == {"none", "blank", "text"}

\* a JSON number of a payload: a grid value, or a number below 0 or above 1
\* (neither backend checks or clamps the numbers it reads)
PayloadNumbers == GridValues \cup {Rat(0 - 1, 2), Rat(3, 2)}

\* what the HTTP exchange of the consistency backend does; score is the JSON
\* value under "score" of a 200 response: a number, null (None) or absent
HHEMFailures == {"timeout", "request_exception", "status", "bad_json", "non_object"}

HHEMNet ==
    {[kind |-> k, score |-> Missing] : k \in HHEMFailures}
    \cup {[kind |-> "ok", score |-> s] : s \in PayloadNumbers \cup {None, Missing}}

\* no network exchange takes place
NoNet == [kind |-> "no_exchange"]

\* keyword groups that _parse_text_response looks for, in the order it tests them
KeywordGroups == {"severe", "partial", "minor", "none"}

\* what the SDK call of the judgment backend does; for kind "json" the choice
\* text parsed as a JSON object with the two values, for kind "text" it is not
\* JSON and holds the given keyword groups
QwenFailures == {"exception", "status", "no_choices", "non_object"}

QwenNet ==
    {[kind |-> k, score |-> Missing, confidence |-> Missing, keywords |-> {}] :
        k \in QwenFailures}
    \cup {[kind |-> "json", score |-> s, confidence |-> c, keywords |-> {}] :
            s \in PayloadNumbers \cup {None, Missing},
            c \in PayloadNumbers \cup {None, Missing}}
    \cup {[kind |-> "text", score |-> Missing, confidence |-> Missing, keywords |-> K] :
            K \in SUBSET KeywordGroups}

-----------------------------------------------------------------------------
(* HHEM_API.py *)

HHEMResponse(score, success, error_message) ==
    [score |-> score, success |-> success, error_message |-> error_message]

\* variant: the validation failures carry an empty error message
evaluate_consistency_silent(generated_text, source_texts, net) ==
    IF generated_text \in {"empty", "blank"}
    THEN HHEMResponse(Zero, FALSE, "")
    ELSE IF source_texts \in {"none", "blank"}
    THEN HHEMResponse(Zero, FALSE, "")
    ELSE IF net.kind = "ok"
    THEN HHEMResponse(IF net.score = Missing THEN Zero ELSE net.score, TRUE, None)
    ELSE IF net.kind = "status"
    THEN HHEMResponse(Zero, FALSE, "HTTP status")
    ELSE IF net.kind = "timeout"
    THEN HHEMResponse(Zero, FALSE, "request timed out")
    ELSE IF net.kind = "request_exception"
    THEN HHEMResponse(Zero, FALSE, "request exception")
    ELSE IF net.kind = "bad_json"
    THEN HHEMResponse(Zero, FALSE, "response JSON decode error")
    ELSE HHEMResponse(Zero, FALSE, "unknown error")

evaluate_consistency(generated_text, source_texts, net) ==
    IF generated_text \in {"empty", "blank"}
    THEN HHEMResponse(Zero, FALSE, "generated text must not be empty")
    ELSE IF source_texts \in {"none", "blank"}
    THEN HHEMResponse(Zero, FALSE, "source texts must not be empty")
    ELSE IF net.kind = "ok"
    THEN HHEMResponse(IF net.score = Missing THEN Zero ELSE net.score, TRUE, None)
    ELSE IF net.kind = "status"
    THEN HHEMResponse(Zero, FALSE, "HTTP status")
    ELSE IF net.kind = "timeout"
    THEN HHEMResponse(Zero, FALSE, "request timed out")
    ELSE IF net.kind = "request_exception"
    THEN HHEMResponse(Zero, FALSE, "request exception")
    ELSE IF net.kind = "bad_json"
    THEN HHEMResponse(Zero, FALSE, "response JSON decode error")
    ELSE HHEMResponse(Zero, FALSE, "unknown error")

\* comparing None with a float raises TypeError
hhem_interpret_raises(score) == score = None

hhem_interpret_score(score) ==
    IF RGe(score, Rat(8, 10)) THEN "highly consistent"
    ELSE IF RGe(score, Rat(6, 10)) THEN "fairly consistent"
    ELSE IF RGe(score, Rat(4, 10)) THEN "partly consistent"
    ELSE IF RGe(score, Rat(2, 10)) THEN "hardly consistent"
    ELSE "seriously inconsistent"

-----------------------------------------------------------------------------
(* qwen_hallucination_evaluator.py *)

QwenHallucinationResponse(hallucination_score, confidence, explanation, success, error_message) ==
    [hallucination_score |-> hallucination_score, confidence |-> confidence,
     explanation |-> explanation, success |-> success,
     error_message |-> error_message]

_parse_text_response(keywords) ==
    LET score ==
            IF "severe" \in keywords THEN Rat(9, 10)
            ELSE IF "partial" \in keywords THEN Rat(6, 10)
            ELSE IF "minor" \in keywords THEN Rat(3, 10)
            ELSE IF "none" \in keywords THEN Rat(1, 10)
            ELSE Rat(5, 10)
    IN  QwenHallucinationResponse(score, Rat(7, 10), "text analysis", TRUE, None)

evaluate_hallucination(generated_text, source_texts, net) ==
    IF generated_text \in {"empty", "blank"}
    THEN QwenHallucinationResponse(One, One, "generated text empty", FALSE,
                                   "generated text must not be empty")
    ELSE IF source_texts \in {"none", "blank"}
    THEN QwenHallucinationResponse(One, Zero, "no reference documents", FALSE,
                                   "reference documents must not be empty")
    ELSE IF net.kind = "exception"
    THEN QwenHallucinationResponse(Rat(5, 10), Zero, "call exception", FALSE, "call exception")
    ELSE IF net.kind = "status"
    THEN QwenHallucinationResponse(Rat(5, 10), Zero, "API call failed", FALSE, "status code")
    ELSE IF net.kind = "no_choices"
    THEN QwenHallucinationResponse(Rat(5, 10), Zero, "API response malformed", FALSE,
                                   "response lacks choices")
    ELSE IF net.kind = "text"
    THEN _parse_text_response(net.keywords)
    ELSE IF net.kind = "json" /\ net.score # None /\ net.confidence # None
    THEN QwenHallucinationResponse(
            IF net.score = Missing THEN Rat(5, 10) ELSE net.score,
            IF net.confidence = Missing THEN Rat(5, 10) ELSE net.confidence,
            "evaluated", TRUE, None)
    \* float(None) and .get on a non-object raise inside the outer try
    ELSE QwenHallucinationResponse(Rat(5, 10), Zero, "call exception", FALSE, "call exception")

qwen_interpret_score(score) ==
    IF RGe(score, Rat(8, 10)) THEN "severe hallucination"
    ELSE IF RGe(score, Rat(6, 10)) THEN "obvious hallucination"
    ELSE IF RGe(score, Rat(4, 10)) THEN "slight hallucination"
    ELSE IF RGe(score, Rat(2, 10)) THEN "mostly accurate"
    ELSE "highly accurate"

-----------------------------------------------------------------------------
(* integrated_hallucination_evaluator.py *)

HHEM_ONLY == "hhem_only"
QWEN_ONLY == "qwen_only"
BOTH == "both"
ENSEMBLE == "ensemble"

EvaluationMethod == {HHEM_ONLY, QWEN_ONLY, BOTH, ENSEMBLE}

\* the dataclass defaults, error_messages set to [] by __post_init__
IntegratedEvaluationResult(method) ==
    [method_used |-> method,
     success |-> FALSE,
     hhem_score |-> None,
     hhem_success |-> FALSE,
     hhem_interpretation |-> None,
     qwen_hallucination_score |-> None,
     qwen_confidence |-> None,
     qwen_success |-> FALSE,
     qwen_explanation |-> None,
     qwen_interpretation |-> None,
     ensemble_score |-> None,
     ensemble_confidence |-> None,
     ensemble_interpretation |-> None,
     error_messages |-> <<>>]

RECURSIVE RSum(_)
RSum(seq) == IF seq = <<>> THEN Zero ELSE RAdd(Head(seq), RSum(Tail(seq)))

\* statistics.mean
mean(seq) == RDiv(RSum(seq), Rat(Len(seq), 1))

\* variant: breakpoints open below (> instead of >=)
_interpret_ensemble_score_open(score, num_evaluators) ==
    [band |-> IF RGt(score, Rat(8, 10)) THEN "severe"
              ELSE IF RGt(score, Rat(6, 10)) THEN "moderate"
              ELSE IF RGt(score, Rat(4, 10)) THEN "mild"
              ELSE IF RGt(score, Rat(2, 10)) THEN "low"
              ELSE "negligible",
     num_evaluators |-> num_evaluators]

_interpret_ensemble_score(score, num_evaluators) ==
    [band |-> IF RGe(score, Rat(8, 10)) THEN "severe"
              ELSE IF RGe(score, Rat(6, 10)) THEN "moderate"
              ELSE IF RGe(score, Rat(4, 10)) THEN "mild"
              ELSE IF RGe(score, Rat(2, 10)) THEN "low"
              ELSE "negligible",
     num_evaluators |-> num_evaluators]

\* variant: a failed consistency backend is entered with score 0.0
hhem_entries_always(result) ==
    <<[score |-> RSub(One, IF result.hhem_score = None THEN Zero ELSE result.hhem_score),
       confidence |-> Rat(9, 10)]>>

\* the (score, confidence) entry the consistency backend appends, if any
hhem_entries(result) ==
    IF result.hhem_success /\ result.hhem_score # None
    THEN <<[score |-> RSub(One, result.hhem_score), confidence |-> Rat(9, 10)]>>
    ELSE <<>>

\* variant: a judgment score with a falsy confidence is not entered
qwen_entries_confident(result) ==
    IF result.qwen_success /\ Truthy(result.qwen_confidence)
    THEN <<[score |-> result.qwen_hallucination_score,
            confidence |-> result.qwen_confidence]>>
    ELSE <<>>

\* the (score, confidence) entry the judgment backend appends, if any;
\* the confidence is `result.qwen_confidence or 0.7`
qwen_entries(result) ==
    IF result.qwen_success /\ result.qwen_hallucination_score # None
    THEN <<[score |-> result.qwen_hallucination_score,
            confidence |-> IF Truthy(result.qwen_confidence)
                           THEN result.qwen_confidence ELSE Rat(7, 10)]>>
    ELSE <<>>

\* variant: the weighted sum is divided by the number of scores
weighted_average_by_count(scores, confidences) ==
    LET weighted_sum == RSum([k \in 1..Len(scores) |->
                                RMul(scores[k], confidences[k])])
    IN  RDiv(weighted_sum, Rat(Len(scores), 1))

\* the weighted average of the scores, or their mean when the weights sum to 0
weighted_average(scores, confidences) ==
    LET weighted_sum == RSum([k \in 1..Len(scores) |->
                                RMul(scores[k], confidences[k])])
        weight_sum == RSum(confidences)
    IN  IF RGt(weight_sum, Zero) THEN RDiv(weighted_sum, weight_sum)
        ELSE mean(scores)

\* variant: the overall success flag is written along with the ensemble fields
set_ensemble_flagging(result, scores, ensemble_score, ensemble_confidence) ==
    IF Len(scores) > 0
    THEN [result EXCEPT
            !.success = TRUE,
            !.ensemble_score = ensemble_score,
            !.ensemble_confidence = ensemble_confidence,
            !.ensemble_interpretation =
                _interpret_ensemble_score(ensemble_score, Len(scores))]
    ELSE result

\* the ensemble fields set from the collected scores and confidences
set_ensemble(result, scores, ensemble_score, ensemble_confidence) ==
    IF Len(scores) > 0
    THEN [result EXCEPT
            !.ensemble_score = ensemble_score,
            !.ensemble_confidence = ensemble_confidence,
            !.ensemble_interpretation =
                _interpret_ensemble_score(ensemble_score, Len(scores))]
    ELSE result

\* the combination of the collected scores and confidences
combine(result, scores, confidences) ==
    set_ensemble(result, scores,
                 IF Len(scores) > 1 THEN weighted_average(scores, confidences)
                 ELSE IF Len(scores) = 1 THEN scores[1] ELSE None,
                 IF Len(scores) > 1 THEN mean(confidences)
                 ELSE IF Len(scores) = 1 THEN confidences[1] ELSE None)

\* the scores and the confidences of the collected entries
combine_entries(result, entries) ==
    combine(result,
            [k \in 1..Len(entries) |-> entries[k].score],
            [k \in 1..Len(entries) |-> entries[k].confidence])

_compute_ensemble_result(result) ==
    combine_entries(result, hhem_entries(result) \o qwen_entries(result))

\* variant: BOTH and ENSEMBLE succeed only when both backends do
overall_success_all(result, method) ==
    \/ (result.hhem_success /\ method \in {HHEM_ONLY})
    \/ (result.qwen_success /\ method \in {QWEN_ONLY})
    \/ (method \in {BOTH, ENSEMBLE} /\ (result.hhem_success /\ result.qwen_success))

\* the overall success flag set at the end of evaluate
overall_success(result, method) ==
    \/ (result.hhem_success /\ method \in {HHEM_ONLY})
    \/ (result.qwen_success /\ method \in {QWEN_ONLY})
    \/ (method \in {BOTH, ENSEMBLE} /\ (result.hhem_success \/ result.qwen_success))

\* the consistency-backend block of evaluate
hhem_block(result, method, self_hhem, hhem_result) ==
    IF method \notin {HHEM_ONLY, BOTH, ENSEMBLE}
    THEN result
    ELSE IF self_hhem
    THEN [result EXCEPT
            !.hhem_score = IF hhem_result.success THEN hhem_result.score ELSE None,
            !.hhem_success = hhem_result.success,
            !.hhem_interpretation =
                IF hhem_result.success /\ ~hhem_interpret_raises(hhem_result.score)
                THEN hhem_interpret_score(hhem_result.score) ELSE None,
            !.error_messages =
                IF hhem_result.success THEN @
                ELSE Append(@, <<"HHEM evaluation failed", hhem_result.error_message>>)]
    ELSE [result EXCEPT
            !.error_messages = Append(@, <<"HHEM evaluator not initialised">>)]

\* the judgment-backend block of evaluate
qwen_block(result, method, self_qwen, qwen_result) ==
    IF method \notin {QWEN_ONLY, BOTH, ENSEMBLE}
    THEN result
    ELSE IF self_qwen
    THEN [result EXCEPT
            !.qwen_hallucination_score =
                IF qwen_result.success THEN qwen_result.hallucination_score ELSE None,
            !.qwen_confidence =
                IF qwen_result.success THEN qwen_result.confidence ELSE None,
            !.qwen_success = qwen_result.success,
            !.qwen_explanation =
                IF qwen_result.success THEN qwen_result.explanation ELSE None,
            !.qwen_interpretation =
                IF qwen_result.success
                THEN qwen_interpret_score(qwen_result.hallucination_score) ELSE None,
            !.error_messages =
                IF qwen_result.success THEN @
                ELSE Append(@, <<"Qwen evaluation failed", qwen_result.error_message>>)]
    ELSE [result EXCEPT
            !.error_messages = Append(@, <<"Qwen evaluator not initialised">>)]

\* variant: the ensemble block also runs under BOTH
ensemble_block_both(result, method) ==
    IF method \in {BOTH, ENSEMBLE} THEN _compute_ensemble_result(result) ELSE result

\* the ensemble block of evaluate
ensemble_block(result, method) ==
    IF method = ENSEMBLE THEN _compute_ensemble_result(result) ELSE result

\* the last assignment of evaluate
success_block(result, method) ==
    [result EXCEPT !.success = overall_success(result, method)]

NotCalled == [not_called |-> TRUE]

\* evaluate: the outcome is the returned result, or raised = TRUE when the
\* TypeError of interpret_score(None) leaves the method; hhem_result and
\* qwen_result are the backend responses (NotCalled when not attempted) and
\* invoked lists the backend evaluations in the order evaluate called them
evaluate(self_hhem, self_qwen, generated_text, source_texts, method, hhem_net, qwen_net) ==
    LET raises(hhem_result) ==
            /\ hhem_result # NotCalled
            /\ hhem_result.success
            /\ hhem_interpret_raises(hhem_result.score)
        blocks(hhem_result, qwen_result) ==
            LET r0 == IntegratedEvaluationResult(method)
                r1 == hhem_block(r0, method, self_hhem, hhem_result)
                r2 == qwen_block(r1, method, self_qwen, qwen_result)
                r3 == ensemble_block(r2, method)
                r4 == success_block(r3, method)
            IN  [raised |-> raises(hhem_result),
                 result |-> IF raises(hhem_result) THEN None ELSE r4,
                 hhem_result |-> hhem_result,
                 qwen_result |-> qwen_result,
                 invoked |-> (IF hhem_result # NotCalled THEN <<"hhem">> ELSE <<>>)
                             \o (IF qwen_result # NotCalled THEN <<"qwen">> ELSE <<>>)]
        from_hhem(hhem_result) ==
            blocks(hhem_result,
                   IF /\ method \in {QWEN_ONLY, BOTH, ENSEMBLE}
                      /\ self_qwen
                      /\ ~raises(hhem_result)
                   THEN evaluate_hallucination(generated_text, source_texts, qwen_net)
                   ELSE NotCalled)
    IN  from_hhem(IF method \in {HHEM_ONLY, BOTH, ENSEMBLE} /\ self_hhem
                  THEN evaluate_consistency(generated_text, source_texts, hhem_net)
                  ELSE NotCalled)

-----------------------------------------------------------------------------
(* The evaluator object and its caller *)

\* an API key argument: None, the empty string, or a key
ApiKeys == {"none", "empty", "key"}

NoCall == [no_call |-> TRUE]

\* no harness is running
HarnessIdle ==
    /\ harness = "none"
    /\ hpc = "idle"
    /\ run_method = "none"
    /\ index = 0
    /\ metrics = None
    /\ successes = None
    /\ step = None

MetricsIdle == derived = None

\* no source_texts has been read
SampleIdle == texts_read = None

\* no batch_evaluate is running
BatchIdle == batch = None

\* _compute_ensemble_result is not observed
EnsembleIdle == ensemble = None

\* no dataset is loaded
LoaderIdle ==
    /\ responses = <<>>
    /\ sources = <<>>
    /\ rng = 0
    /\ lpc = "idle"
    /\ query = None
    /\ samples = None

Init ==
    /\ pc = "new"
    /\ hhem_evaluator = FALSE
    /\ qwen_evaluator = FALSE
    /\ call = NoCall
    /\ ret = None
    /\ HarnessIdle
    /\ MetricsIdle
    /\ LoaderIdle
    /\ SampleIdle
    /\ BatchIdle
    /\ EnsembleIdle

\* variant: the constructor never raises
Construct_lenient(vectara_api_key, dashscope_api_key, dashscope_available) ==
    /\ pc = "new"
    /\ hhem_evaluator' = (vectara_api_key = "key")
    /\ qwen_evaluator' = (dashscope_api_key = "key" /\ dashscope_available)
    /\ pc' = "ready"
    /\ UNCHANGED <<call, ret, harnessVars, metricVars, loaderVars, sampleVars, batchVars, ensembleVars>>

\* IntegratedHallucinationEvaluator.__init__; the judgment backend's
\* constructor raises when the dashscope module is not importable
Construct(vectara_api_key, dashscope_api_key, dashscope_available) ==
    LET hhem == vectara_api_key = "key"
        qwen == dashscope_api_key = "key" /\ dashscope_available
    IN  /\ pc = "new"
        /\ hhem_evaluator' = hhem
        /\ qwen_evaluator' = qwen
        /\ pc' = IF ~hhem /\ ~qwen THEN "init_failed" ELSE "ready"
        /\ UNCHANGED <<call, ret, harnessVars, metricVars, loaderVars, sampleVars, batchVars, ensembleVars>>

\* a backend reaches its network exchange only when evaluate calls it and its
\* own validation accepts the texts
hhem_exchanges(method, generated_text, source_texts) ==
    /\ method \in {HHEM_ONLY, BOTH, ENSEMBLE}
    /\ hhem_evaluator
    /\ generated_text = "text" /\ source_texts = "text"

qwen_exchanges(method, generated_text, source_texts, hhem_net) ==
    /\ method \in {QWEN_ONLY, BOTH, ENSEMBLE}
    /\ qwen_evaluator
    /\ generated_text = "text" /\ source_texts = "text"
    /\ ~(hhem_net.kind = "ok" /\ hhem_net.score = None)

\* one call of IntegratedHallucinationEvaluator.evaluate; hhem_net and
\* qwen_net are what the network does in the exchanges that take place
Evaluate(generated_text, source_texts, method, hhem_net, qwen_net) ==
    /\ pc = "ready"
    /\ (hhem_net = NoNet) <=> ~hhem_exchanges(method, generated_text, source_texts)
    /\ (qwen_net = NoNet) <=> ~qwen_exchanges(method, generated_text, source_texts, hhem_net)
    /\ LET Leave(out) ==
               /\ pc' = IF out.raised THEN "raised" ELSE "returned"
               /\ ret' = out.result
               /\ call' = [method |-> method,
                           generated_text |-> generated_text,
                           source_texts |-> source_texts,
                           hhem_net |-> hhem_net,
                           qwen_net |-> qwen_net,
                           hhem_result |-> out.hhem_result,
                           qwen_result |-> out.qwen_result,
                           invoked |-> out.invoked]
       IN  Leave(evaluate(hhem_evaluator, qwen_evaluator, generated_text,
                          source_texts, method, hhem_net, qwen_net))
    /\ UNCHANGED <<hhem_evaluator, qwen_evaluator, harnessVars, metricVars, loaderVars,
                   sampleVars, batchVars, ensembleVars>>

\* the caller takes the result (or the exception) and is ready to call again
NextCall ==
    /\ pc \in {"returned", "raised"}
    /\ pc' = "ready"
    /\ call' = NoCall
    /\ ret' = None
    /\ UNCHANGED <<hhem_evaluator, qwen_evaluator, harnessVars, metricVars, loaderVars,
                   sampleVars, batchVars, ensembleVars>>

Next ==
    \/ \E v \in ApiKeys, d \in ApiKeys, a \in BOOLEAN : Construct(v, d, a)
    \/ \E g \in GeneratedTexts, s \in SourceTexts, m \in EvaluationMethod :
          \E hn \in IF hhem_exchanges(m, g, s) THEN HHEMNet ELSE {NoNet} :
            \E qn \in IF qwen_exchanges(m, g, s, hn) THEN QwenNet ELSE {NoNet} :
              Evaluate(g, s, m, hn, qn)
    \/ NextCall

Spec == Init /\ [][Next]_vars

-----------------------------------------------------------------------------
(* Claims about evaluate and the ensemble combiner (specification Spec) *)

\* the backend answered the latest evaluate with a success
HHEMSucceeded == call # NoCall /\ call.hhem_result # NotCalled /\ call.hhem_result.success
QwenSucceeded == call # NoCall /\ call.qwen_result # NotCalled /\ call.qwen_result.success

Returned(method) == pc = "returned" /\ call.method = method

\* a backend outcome that reports a failure with a non-empty error message
Failure(response) ==
    /\ ~response.success
    /\ response.error_message \in STRING
    /\ response.error_message # ""

\* C15: for both backends, an empty or whitespace-only candidate text, or a
\* reference list that is empty or holds only empty/whitespace strings, gives
\* an outcome with success = false and a non-empty error message, and no
\* exception escapes.
C15_InvalidInputFails ==
    (/\ call # NoCall
     /\ \/ call.generated_text \in {"empty", "blank"}
        \/ call.source_texts \in {"none", "blank"}) =>
        /\ pc # "raised"
        /\ call.hhem_result # NotCalled => Failure(call.hhem_result)
        /\ call.qwen_result # NotCalled => Failure(call.qwen_result)

\* both backends have rejected a whitespace-only reference list
C15_Witness ==
    /\ pc = "returned"
    /\ call.generated_text = "text"
    /\ call.source_texts = "blank"
    /\ call.hhem_result # NotCalled
    /\ call.qwen_result # NotCalled
    /\ Failure(call.hhem_result)
    /\ Failure(call.qwen_result)

\* the exchange of the consistency backend failed in transport: a timeout or
\* connection error, a status other than 200, or a 200 response whose body is
\* not JSON, not a JSON object, or lacks the score field
HHEMTransportFailure(net) ==
    \/ net.kind \in HHEMFailures
    \/ net.kind = "ok" /\ net.score = Missing

\* the same for the judgment backend; a choice text that is not JSON at all is
\* the keyword fallback of C17
QwenTransportFailure(net) ==
    \/ net.kind \in QwenFailures
    \/ net.kind = "json" /\ net.score = Missing

\* C16: for both backends every transport failure (timeout, non-success
\* status, malformed payload) yields success = false with a non-empty error
\* detail and is never reported as a successful score.
C16_TransportFailureFails ==
    call # NoCall =>
        /\ HHEMTransportFailure(call.hhem_net) => Failure(call.hhem_result)
        /\ QwenTransportFailure(call.qwen_net) => Failure(call.qwen_result)

\* the judgment backend answered with status 200 and a choice whose text is
\* not JSON, or is JSON but not an object with numeric score fields
Unparseable(net) ==
    \/ net.kind = "text"
    \/ net.kind = "non_object"
    \/ net.kind = "json" /\ (net.score = None \/ net.confidence = None)

\* C17: whenever the judgment backend answers with a choice that cannot be
\* parsed into the structured form, evaluate_hallucination returns the keyword
\* fallback: success = true, confidence 0.7 and a hallucination_score among
\* 0.9, 0.6, 0.3, 0.1.
C17_KeywordFallback ==
    (call # NoCall /\ Unparseable(call.qwen_net)) =>
        /\ call.qwen_result.success
        /\ call.qwen_result.confidence = Rat(7, 10)
        /\ call.qwen_result.hallucination_score
                \in {Rat(9, 10), Rat(6, 10), Rat(3, 10), Rat(1, 10)}

\* C18: under BOTH or ENSEMBLE with both backends constructed, each backend
\* is attempted whatever the other one returns: the call of evaluate has
\* attempted both.
C18_BothAttempted ==
    (/\ call # NoCall
     /\ call.method \in {BOTH, ENSEMBLE}
     /\ hhem_evaluator /\ qwen_evaluator) =>
        /\ call.hhem_result # NotCalled
        /\ call.qwen_result # NotCalled

\* C19: for every method, set of constructed backends and backend outcome,
\* evaluate returns a result instead of raising, and a returned result with
\* success = false has a non-empty error_messages list.
C19_ReturnsWithMessages ==
    /\ pc # "raised"
    /\ (pc = "returned" /\ ~ret.success) => ret.error_messages # <<>>

\* C20: a construction with one credential absent leaves that backend
\* unconstructed and is not an error when the other backend is constructed;
\* construction raises exactly when no backend ends up constructed; after a
\* successful construction at least one backend handle is present in every
\* state.
C20_AtLeastOneBackend ==
    /\ [](pc \in {"ready", "returned", "raised"} => (hhem_evaluator \/ qwen_evaluator))
    /\ [][\A v \in ApiKeys, d \in ApiKeys, a \in BOOLEAN :
            Construct(v, d, a) =>
                /\ v \in {"none", "empty"} => ~hhem_evaluator'
                /\ d \in {"none", "empty"} => ~qwen_evaluator'
                /\ pc' = "init_failed" <=> (~hhem_evaluator' /\ ~qwen_evaluator')
                /\ pc' = "ready" <=> (hhem_evaluator' \/ qwen_evaluator')]_vars
    /\ [][pc # "new" =>
            (hhem_evaluator' = hhem_evaluator /\ qwen_evaluator' = qwen_evaluator)]_vars

\* an evaluator constructed without the consistency credential has answered
\* a call
C20_Witness ==
    /\ pc = "returned"
    /\ ~hhem_evaluator
    /\ qwen_evaluator

\* C3: under ENSEMBLE with both backends successful (consistency score h,
\* judgment score q, self-reported confidence c, c = 0 included) the ensemble
\* score is ((1-h)*0.9 + q*c)/(0.9 + c), and the plain mean (1-h+q)/2 when
\* both confidences are zero.
C3_WeightedMean ==
    (Returned(ENSEMBLE) /\ HHEMSucceeded /\ QwenSucceeded) =>
        LET s1 == RSub(One, call.hhem_result.score)
            c1 == Rat(9, 10)
            s2 == call.qwen_result.hallucination_score
            c2 == call.qwen_result.confidence
        IN  ret.ensemble_score =
                IF RAdd(c1, c2) = Zero
                THEN RDiv(RAdd(s1, s2), Rat(2, 1))
                ELSE RDiv(RAdd(RMul(s1, c1), RMul(s2, c2)), RAdd(c1, c2))

\* C4: under ENSEMBLE with exactly one successful backend the ensemble score
\* is that backend's severity (1-h, or q) and the ensemble confidence is that
\* backend's confidence unchanged (0.9, or the self-reported c).
C4_SingleBackend ==
    /\ (Returned(ENSEMBLE) /\ HHEMSucceeded /\ ~QwenSucceeded) =>
            /\ ret.ensemble_score = RSub(One, call.hhem_result.score)
            /\ ret.ensemble_confidence = Rat(9, 10)
    /\ (Returned(ENSEMBLE) /\ ~HHEMSucceeded /\ QwenSucceeded) =>
            /\ ret.ensemble_score = call.qwen_result.hallucination_score
            /\ ret.ensemble_confidence = call.qwen_result.confidence

\* C5: under ENSEMBLE with no successful backend (failed or not constructed)
\* the result is unsuccessful and carries no ensemble score, confidence or
\* interpretation.
C5_NoBackendNoScore ==
    (Returned(ENSEMBLE) /\ ~HHEMSucceeded /\ ~QwenSucceeded) =>
        /\ ret.success = FALSE
        /\ ret.ensemble_score = None
        /\ ret.ensemble_confidence = None
        /\ ret.ensemble_interpretation = None

\* both backends were attempted under ENSEMBLE, both failed, and the result
\* came back unsuccessful and without score
C5_Witness ==
    /\ Returned(ENSEMBLE)
    /\ call.hhem_result # NotCalled /\ ~call.hhem_result.success
    /\ call.qwen_result # NotCalled /\ ~call.qwen_result.success
    /\ ret.success = FALSE
    /\ ret.ensemble_score = None

\* C6: the overall success flag is hhem_success OR qwen_success under BOTH and
\* ENSEMBLE (false exactly when every backend failed or was absent), equals
\* hhem_success under HHEM_ONLY and qwen_success under QWEN_ONLY.
C6_OverallSuccess ==
    pc = "returned" =>
        /\ ret.hhem_success = HHEMSucceeded
        /\ ret.qwen_success = QwenSucceeded
        /\ call.method \in {BOTH, ENSEMBLE} =>
                ret.success = (HHEMSucceeded \/ QwenSucceeded)
        /\ call.method = HHEM_ONLY =>
                ret.success = HHEMSucceeded /\ ~QwenSucceeded
        /\ call.method = QWEN_ONLY =>
                ret.success = QwenSucceeded /\ ~HHEMSucceeded

\* a BOTH result that is successful although the consistency backend failed
C6_Witness ==
    /\ Returned(BOTH)
    /\ call.hhem_result # NotCalled /\ ~call.hhem_result.success
    /\ QwenSucceeded
    /\ ret.success

InUnit(x) == RLe(Zero, x) /\ RLe(x, One)

\* C7: an ensemble score in [0,1] falls in exactly one band with closed-below
\* breakpoints 0.8 / 0.6 / 0.4 / 0.2, and the interpretation states how many
\* backends contributed a severity.
C7_Bands ==
    (pc = "returned" /\ ret.ensemble_score # None /\ InUnit(ret.ensemble_score)) =>
        LET x == ret.ensemble_score
            band == ret.ensemble_interpretation.band
        IN  /\ band = "severe" <=> RGe(x, Rat(4, 5))
            /\ band = "moderate" <=> (RGe(x, Rat(3, 5)) /\ RLt(x, Rat(4, 5)))
            /\ band = "mild" <=> (RGe(x, Rat(2, 5)) /\ RLt(x, Rat(3, 5)))
            /\ band = "low" <=> (RGe(x, Rat(1, 5)) /\ RLt(x, Rat(2, 5)))
            /\ band = "negligible" <=> RLt(x, Rat(1, 5))
            /\ ret.ensemble_interpretation.num_evaluators =
                    (IF HHEMSucceeded THEN 1 ELSE 0) + (IF QwenSucceeded THEN 1 ELSE 0)
            /\ ret.ensemble_interpretation.num_evaluators \in {1, 2}

\* two backends contributed and the score sits on the breakpoint 0.6
C7_Witness ==
    /\ pc = "returned"
    /\ ret.ensemble_score = Rat(3, 5)
    /\ HHEMSucceeded /\ QwenSucceeded
    /\ ret.ensemble_interpretation = [band |-> "moderate", num_evaluators |-> 2]

\* a probability-like field: absent, or a number of [0,1]
Probability(x) == x = None \/ InUnit(x)

\* C21: in every result returned by the backends and by evaluate, each
\* probability-like field that is present (consistency score, judgment
\* hallucination score, judgment confidence, ensemble_score,
\* ensemble_confidence) lies in [0,1], for every payload a backend may return.
C21_ProbabilitiesInUnit ==
    call # NoCall =>
        /\ call.hhem_result # NotCalled => Probability(call.hhem_result.score)
        /\ call.qwen_result # NotCalled =>
                /\ Probability(call.qwen_result.hallucination_score)
                /\ Probability(call.qwen_result.confidence)
        /\ pc = "returned" =>
                /\ Probability(ret.hhem_score)
                /\ Probability(ret.qwen_hallucination_score)
                /\ Probability(ret.qwen_confidence)
                /\ Probability(ret.ensemble_score)
                /\ Probability(ret.ensemble_confidence)

\* C22: with two successful backends in ENSEMBLE, ensemble_confidence is the
\* arithmetic mean (0.9 + c)/2 of the two confidences, c being the judgment
\* backend's self-reported confidence, for every c in [0,1].
C22_ConfidenceMean ==
    (/\ Returned(ENSEMBLE) /\ HHEMSucceeded /\ QwenSucceeded
     /\ InUnit(call.qwen_result.confidence)) =>
        ret.ensemble_confidence =
            RDiv(RAdd(Rat(9, 10), call.qwen_result.confidence), Rat(2, 1))

\* how often a backend's evaluation was invoked by the latest evaluate
Invocations(backend) ==
    Cardinality({k \in 1..Len(call.invoked) : call.invoked[k] = backend})

\* C24: within one call of evaluate, each backend's evaluation is invoked
\* exactly once when the backend is constructed and selected by the method
\* (consistency backend for HHEM_ONLY/BOTH/ENSEMBLE, judgment backend for
\* QWEN_ONLY/BOTH/ENSEMBLE) and zero times otherwise; a failed attempt is
\* never retried, and the consistency backend's attempt completes before the
\* judgment backend's attempt starts.
C24_OneAttemptEach ==
    call # NoCall =>
        /\ Invocations("hhem") =
                (IF hhem_evaluator /\ call.method \in {HHEM_ONLY, BOTH, ENSEMBLE}
                 THEN 1 ELSE 0)
        /\ Invocations("qwen") =
                (IF qwen_evaluator /\ call.method \in {QWEN_ONLY, BOTH, ENSEMBLE}
                 THEN 1 ELSE 0)
        /\ \A j \in 1..Len(call.invoked), k \in 1..Len(call.invoked) :
                (call.invoked[j] = "hhem" /\ call.invoked[k] = "qwen") => j < k

\* C25: the ensemble computation runs only for method ENSEMBLE: in every
\* result of evaluate with method HHEM_ONLY, QWEN_ONLY or BOTH,
\* ensemble_score, ensemble_confidence and ensemble_interpretation stay
\* absent, even when both backends succeeded.
C25_EnsembleOnlyForEnsemble ==
    (pc = "returned" /\ call.method # ENSEMBLE) =>
        /\ ret.ensemble_score = None
        /\ ret.ensemble_confidence = None
        /\ ret.ensemble_interpretation = None

\* a BOTH result of two successful backends that carries no ensemble score
C25_Witness ==
    /\ Returned(BOTH)
    /\ HHEMSucceeded /\ QwenSucceeded
    /\ ret.success
    /\ ret.hhem_score # None /\ ret.qwen_hallucination_score # None
    /\ ret.ensemble_score = None

\* C29: for every result of evaluate with method ENSEMBLE, success is true if
\* and only if ensemble_score is present (and then ensemble_confidence and
\* ensemble_interpretation are present too), for every backend outcome
\* including a successful response whose score value is null.
C29_SuccessIffEnsembleScore ==
    Returned(ENSEMBLE) =>
        /\ ret.success <=> ret.ensemble_score # None
        /\ ret.ensemble_score # None =>
                /\ ret.ensemble_confidence # None
                /\ ret.ensemble_interpretation # None
        /\ ret.ensemble_score = None =>
                /\ ret.ensemble_confidence = None
                /\ ret.ensemble_interpretation = None

\* an ENSEMBLE result after the judgment backend read a null score from a
\* well-formed answer while the consistency backend succeeded
C29_Witness ==
    /\ Returned(ENSEMBLE)
    /\ call.qwen_net.kind = "json"
    /\ call.qwen_net.score = None
    /\ ~call.qwen_result.success
    /\ HHEMSucceeded
    /\ ret.success
    /\ ret.ensemble_score = RSub(One, call.hhem_result.score)

\* the severities that contribute to the ensemble score of the latest call
Severities ==
    (IF HHEMSucceeded THEN {RSub(One, call.hhem_result.score)} ELSE {})
    \cup (IF QwenSucceeded THEN {call.qwen_result.hallucination_score} ELSE {})

\* the numbers the backends returned in the latest call lie in [0,1]
BackendNumbersInUnit ==
    /\ HHEMSucceeded => InUnit(call.hhem_result.score)
    /\ QwenSucceeded =>
            /\ InUnit(call.qwen_result.hallucination_score)
            /\ InUnit(call.qwen_result.confidence)

-----------------------------------------------------------------------------
(* examples/ragtruth_evaluation.py: EvaluationMetrics *)

EvaluationMetrics ==
    [total_samples |-> 0,
     successful_evaluations |-> 0,
     true_positives |-> 0,
     false_positives |-> 0,
     true_negatives |-> 0,
     false_negatives |-> 0,
     hhem_success_rate |-> Zero,
     qwen_success_rate |-> Zero,
     ensemble_success_rate |-> Zero,
     hallucination_scores |-> <<>>,
     non_hallucination_scores |-> <<>>]

accuracy(m) ==
    LET total == m.true_positives + m.false_positives
                 + m.true_negatives + m.false_negatives
    IN  IF total = 0 THEN Zero
        ELSE Rat(m.true_positives + m.true_negatives, total)

\* variant: the denominator is the number of true positives and false negatives
precision_by_recall(m) ==
    IF m.true_positives + m.false_negatives = 0 THEN Zero
    ELSE Rat(m.true_positives, m.true_positives + m.false_negatives)

precision(m) ==
    IF m.true_positives + m.false_positives = 0 THEN Zero
    ELSE Rat(m.true_positives, m.true_positives + m.false_positives)

recall(m) ==
    IF m.true_positives + m.false_negatives = 0 THEN Zero
    ELSE Rat(m.true_positives, m.true_positives + m.false_negatives)

f1_score(m) ==
    IF RAdd(precision(m), recall(m)) = Zero THEN Zero
    ELSE RDiv(RMul(Rat(2, 1), RMul(precision(m), recall(m))),
              RAdd(precision(m), recall(m)))

-----------------------------------------------------------------------------
(* The loop bodies of the two harnesses *)

\* a sample as the harnesses see it: the ground truth, the generated text and
\* the shape of str(source_info): whitespace only, shorter than 10 characters,
\* or longer
Samples ==
    [has_hallucination : BOOLEAN,
     generated_text : {"blank", "text"},
     source_info : {"blank", "short", "long"}]

\* RAGtruthSample.source_texts of a string source_info
source_texts_of(sample) == IF sample.source_info = "blank" THEN "blank" ELSE "text"

\* the four confusion-matrix branches, shared by both loops
update_confusion(m, predicted_hallucination, actual_hallucination) ==
    IF predicted_hallucination /\ actual_hallucination
    THEN [m EXCEPT !.true_positives = @ + 1]
    ELSE IF predicted_hallucination /\ ~actual_hallucination
    THEN [m EXCEPT !.false_positives = @ + 1]
    ELSE IF ~predicted_hallucination /\ ~actual_hallucination
    THEN [m EXCEPT !.true_negatives = @ + 1]
    ELSE [m EXCEPT !.false_negatives = @ + 1]

\* variant: the score is filed under the opposite ground truth
collect_score_swapped(m, score, actual_hallucination) ==
    IF actual_hallucination
    THEN [m EXCEPT !.non_hallucination_scores = Append(@, score)]
    ELSE [m EXCEPT !.hallucination_scores = Append(@, score)]

\* the score is appended to the collection of the sample's ground truth
collect_score(m, score, actual_hallucination) ==
    IF actual_hallucination
    THEN [m EXCEPT !.hallucination_scores = Append(@, score)]
    ELSE [m EXCEPT !.non_hallucination_scores = Append(@, score)]

\* RAGtruthEvaluator.hallucination_threshold
ragtruth_hallucination_threshold == Rat(5, 10)

\* LargeScaleEvaluator.hallucination_threshold and qwen_threshold
large_hallucination_threshold == Rat(5, 10)
large_qwen_threshold == Rat(2, 10)

\* variant: the judgment score is compared with >=
ragtruth_predict_closed(method, result) ==
    IF method = HHEM_ONLY /\ result.hhem_score # None
    THEN [predicted |-> RGt(result.hhem_score, ragtruth_hallucination_threshold),
          score |-> result.hhem_score]
    ELSE IF method = QWEN_ONLY /\ result.qwen_hallucination_score # None
    THEN [predicted |-> RGe(result.qwen_hallucination_score,
                            ragtruth_hallucination_threshold),
          score |-> result.qwen_hallucination_score]
    ELSE IF method \in {BOTH, ENSEMBLE} /\ result.ensemble_score # None
    THEN [predicted |-> RGe(result.ensemble_score, ragtruth_hallucination_threshold),
          score |-> result.ensemble_score]
    ELSE [predicted |-> FALSE, score |-> None]

\* predicted_hallucination and score_to_use of RAGtruthEvaluator.evaluate_on_dataset
ragtruth_predict(method, result) ==
    IF method = HHEM_ONLY /\ result.hhem_score # None
    THEN [predicted |-> RGt(result.hhem_score, ragtruth_hallucination_threshold),
          score |-> result.hhem_score]
    ELSE IF method = QWEN_ONLY /\ result.qwen_hallucination_score # None
    THEN [predicted |-> RGt(result.qwen_hallucination_score,
                            ragtruth_hallucination_threshold),
          score |-> result.qwen_hallucination_score]
    ELSE IF method \in {BOTH, ENSEMBLE} /\ result.ensemble_score # None
    THEN [predicted |-> RGt(result.ensemble_score, ragtruth_hallucination_threshold),
          score |-> result.ensemble_score]
    ELSE [predicted |-> FALSE, score |-> None]

\* predicted_hallucination and score of LargeScaleEvaluator.evaluate_samples;
\* score None stands for the `continue` of the else branch
large_predict(method, result) ==
    IF method = HHEM_ONLY /\ result.hhem_score # None
    THEN [predicted |-> RLt(result.hhem_score, large_hallucination_threshold),
          score |-> result.hhem_score]
    ELSE IF method = QWEN_ONLY /\ result.qwen_hallucination_score # None
    THEN [predicted |-> RGt(result.qwen_hallucination_score, large_qwen_threshold),
          score |-> result.qwen_hallucination_score]
    ELSE IF method \in {BOTH, ENSEMBLE} /\ result.ensemble_score # None
    THEN [predicted |-> RGt(result.ensemble_score, large_hallucination_threshold),
          score |-> result.ensemble_score]
    ELSE [predicted |-> FALSE, score |-> None]

\* what the loop body did with a sample
StepRecord(sample, outcome, predicted, score) ==
    [has_hallucination |-> sample.has_hallucination,
     outcome |-> outcome, predicted |-> predicted, score |-> score]

\* loop body of RAGtruthEvaluator.evaluate_on_dataset on an evaluate outcome
ragtruth_body(m, succ, method, sample, out) ==
    IF out.raised
    THEN [metrics |-> m, successes |-> succ,
          step |-> StepRecord(sample, "raised", FALSE, None)]
    ELSE IF ~out.result.success
    THEN [metrics |-> m, successes |-> succ,
          step |-> StepRecord(sample, "failed", FALSE, None)]
    ELSE
        LET result == out.result
            p == ragtruth_predict(method, result)
            actual_hallucination == sample.has_hallucination
            m1 == [m EXCEPT !.successful_evaluations = @ + 1]
            m2 == update_confusion(m1, p.predicted, actual_hallucination)
            m3 == IF p.score # None
                  THEN collect_score(m2, p.score, actual_hallucination) ELSE m2
        IN  [metrics |-> m3,
             successes |->
                [hhem |-> succ.hhem + (IF result.hhem_success THEN 1 ELSE 0),
                 qwen |-> succ.qwen + (IF result.qwen_success THEN 1 ELSE 0),
                 ensemble |-> succ.ensemble
                              + (IF result.ensemble_score # None THEN 1 ELSE 0)],
             step |-> StepRecord(sample, IF p.score # None THEN "scored" ELSE "no_score",
                                 p.predicted, p.score)]

(* examples/ragtruth_large_scale_evaluation.py *)

EvaluationResults ==
    [total_samples |-> 0,
     successful_evaluations |-> 0,
     accuracy |-> Zero,
     precision |-> Zero,
     recall |-> Zero,
     f1_score |-> Zero,
     true_positives |-> 0,
     false_positives |-> 0,
     true_negatives |-> 0,
     false_negatives |-> 0,
     hallucination_scores |-> <<>>,
     non_hallucination_scores |-> <<>>]

\* loop body of LargeScaleEvaluator.evaluate_samples on an evaluate outcome
\* (evaluate is not reached for a sample whose source info is too short)
large_body(m, method, sample, out) ==
    IF sample.source_info \in {"blank", "short"}
    THEN [metrics |-> m, step |-> StepRecord(sample, "skipped", FALSE, None)]
    ELSE IF out.raised
    THEN [metrics |-> m, step |-> StepRecord(sample, "raised", FALSE, None)]
    ELSE IF ~out.result.success
    THEN [metrics |-> m, step |-> StepRecord(sample, "failed", FALSE, None)]
    ELSE
        LET p == large_predict(method, out.result)
            actual_hallucination == sample.has_hallucination
            m1 == [m EXCEPT !.successful_evaluations = @ + 1]
            m2 == update_confusion(m1, p.predicted, actual_hallucination)
            m3 == collect_score(m2, p.score, actual_hallucination)
        IN  IF p.score = None
            THEN [metrics |-> m1, step |-> StepRecord(sample, "no_score", FALSE, None)]
            ELSE [metrics |-> m3,
                  step |-> StepRecord(sample, "scored", p.predicted, p.score)]

\* variant: f1 is stored without the factor 2
large_compute_metrics_halved(m) ==
    IF m.successful_evaluations > 0
    THEN
        LET total_predictions == m.true_positives + m.false_positives
                                 + m.true_negatives + m.false_negatives
            acc == IF total_predictions > 0
                   THEN Rat(m.true_positives + m.true_negatives, total_predictions)
                   ELSE m.accuracy
            prec == IF m.true_positives + m.false_positives > 0
                    THEN Rat(m.true_positives, m.true_positives + m.false_positives)
                    ELSE m.precision
            rec == IF m.true_positives + m.false_negatives > 0
                   THEN Rat(m.true_positives, m.true_positives + m.false_negatives)
                   ELSE m.recall
            f1 == IF RGt(RAdd(prec, rec), Zero)
                  THEN RDiv(RMul(prec, rec), RAdd(prec, rec))
                  ELSE m.f1_score
        IN  [m EXCEPT !.accuracy = acc, !.precision = prec,
                      !.recall = rec, !.f1_score = f1]
    ELSE m

\* the metrics LargeScaleEvaluator.evaluate_samples stores after the loop
large_compute_metrics(m) ==
    IF m.successful_evaluations > 0
    THEN
        LET total_predictions == m.true_positives + m.false_positives
                                 + m.true_negatives + m.false_negatives
            acc == IF total_predictions > 0
                   THEN Rat(m.true_positives + m.true_negatives, total_predictions)
                   ELSE m.accuracy
            prec == IF m.true_positives + m.false_positives > 0
                    THEN Rat(m.true_positives, m.true_positives + m.false_positives)
                    ELSE m.precision
            rec == IF m.true_positives + m.false_negatives > 0
                   THEN Rat(m.true_positives, m.true_positives + m.false_negatives)
                   ELSE m.recall
            f1 == IF RGt(RAdd(prec, rec), Zero)
                  THEN RDiv(RMul(Rat(2, 1), RMul(prec, rec)), RAdd(prec, rec))
                  ELSE m.f1_score
        IN  [m EXCEPT !.accuracy = acc, !.precision = prec,
                      !.recall = rec, !.f1_score = f1]
    ELSE m

\* the success rates RAGtruthEvaluator.evaluate_on_dataset stores after the loop
ragtruth_success_rates(m, succ) ==
    IF m.total_samples > 0
    THEN [m EXCEPT !.hhem_success_rate = Rat(succ.hhem, m.total_samples),
                   !.qwen_success_rate = Rat(succ.qwen, m.total_samples),
                   !.ensemble_success_rate = Rat(succ.ensemble, m.total_samples)]
    ELSE m

-----------------------------------------------------------------------------
(* Harness runs *)

\* network behaviour drawn in harness runs: one failure per backend and the
\* scores around the thresholds 0.2 and 0.5
HarnessHHEMNet ==
    {[kind |-> "timeout", score |-> Missing]}
    \cup {[kind |-> "ok", score |-> s] :
            s \in {Rat(1, 5), Rat(1, 2), Rat(4, 5), None}}

HarnessQwenNet ==
    {[kind |-> "exception", score |-> Missing, confidence |-> Missing, keywords |-> {}]}
    \cup {[kind |-> "json", score |-> s, confidence |-> Rat(9, 10), keywords |-> {}] :
            s \in {Zero, Rat(1, 5), Rat(1, 2), Rat(4, 5)}}

\* the harness constructors build the evaluator; it holds at least one backend
HarnessInit ==
    /\ pc = "ready"
    /\ hhem_evaluator \in BOOLEAN
    /\ qwen_evaluator \in BOOLEAN
    /\ hhem_evaluator \/ qwen_evaluator
    /\ call = NoCall
    /\ ret = None
    /\ HarnessIdle
    /\ MetricsIdle
    /\ LoaderIdle
    /\ SampleIdle
    /\ BatchIdle
    /\ EnsembleIdle

\* evaluate_on_dataset / evaluate_samples up to the loop, on n samples
StartRun(h, method, n) ==
    /\ hpc = "idle"
    /\ harness' = h
    /\ hpc' = "loop"
    /\ run_method' = method
    /\ index' = 0
    /\ metrics' = IF h = "ragtruth"
                  THEN [EvaluationMetrics EXCEPT !.total_samples = n]
                  ELSE [EvaluationResults EXCEPT !.total_samples = n]
    /\ successes' = [hhem |-> 0, qwen |-> 0, ensemble |-> 0]
    /\ step' = None
    /\ UNCHANGED <<evalVars, metricVars, loaderVars, sampleVars, batchVars, ensembleVars>>

\* one iteration of the loop of RAGtruthEvaluator.evaluate_on_dataset
RAGtruthStep(sample, hhem_net, qwen_net) ==
    /\ hpc = "loop" /\ harness = "ragtruth"
    /\ index < metrics.total_samples
    /\ LET Record(out, body) ==
               /\ metrics' = body.metrics
               /\ successes' = body.successes
               /\ step' = body.step
               /\ ret' = out.result
               /\ call' = [method |-> run_method,
                           hhem_result |-> out.hhem_result,
                           qwen_result |-> out.qwen_result]
           Body(out) ==
               Record(out, ragtruth_body(metrics, successes, run_method, sample, out))
       IN  Body(evaluate(hhem_evaluator, qwen_evaluator, sample.generated_text,
                         source_texts_of(sample), run_method, hhem_net, qwen_net))
    /\ index' = index + 1
    /\ UNCHANGED <<pc, hhem_evaluator, qwen_evaluator, harness, hpc, run_method,
                   metricVars, loaderVars, sampleVars, batchVars, ensembleVars>>

\* one iteration of the loop of LargeScaleEvaluator.evaluate_samples
LargeScaleStep(sample, hhem_net, qwen_net) ==
    /\ hpc = "loop" /\ harness = "large"
    /\ index < metrics.total_samples
    /\ LET skipped == sample.source_info \in {"blank", "short"}
           Record(out, body) ==
               /\ metrics' = body.metrics
               /\ step' = body.step
               /\ ret' = IF skipped THEN None ELSE out.result
               /\ call' = IF skipped THEN NoCall
                          ELSE [method |-> run_method,
                                hhem_result |-> out.hhem_result,
                                qwen_result |-> out.qwen_result]
           Body(out) == Record(out, large_body(metrics, run_method, sample, out))
       IN  Body(evaluate(hhem_evaluator, qwen_evaluator, sample.generated_text,
                         source_texts_of(sample), run_method, hhem_net, qwen_net))
    /\ index' = index + 1
    /\ UNCHANGED <<pc, hhem_evaluator, qwen_evaluator, harness, hpc, run_method,
                   successes, metricVars, loaderVars, sampleVars, batchVars, ensembleVars>>

\* the code after the loop, up to the return of the metrics
FinishRun ==
    /\ hpc = "loop"
    /\ index = metrics.total_samples
    /\ hpc' = "done"
    /\ metrics' = IF harness = "ragtruth"
                  THEN ragtruth_success_rates(metrics, successes)
                  ELSE large_compute_metrics(metrics)
    /\ UNCHANGED <<evalVars, harness, run_method, index, successes, step, metricVars,
                   loaderVars, sampleVars, batchVars, ensembleVars>>

\* the network outcomes of a loop iteration: an exchange takes place only when
\* the harness reaches evaluate and the backend reaches its request
HarnessNext ==
    \/ \E h \in {"ragtruth", "large"}, m \in EvaluationMethod, n \in 0..MaxSamples :
          StartRun(h, m, n)
    \/ \E sample \in Samples :
          \E hn \in IF hhem_exchanges(run_method, sample.generated_text,
                                      source_texts_of(sample))
                    THEN HarnessHHEMNet ELSE {NoNet} :
            \E qn \in IF qwen_exchanges(run_method, sample.generated_text,
                                        source_texts_of(sample), hn)
                      THEN HarnessQwenNet ELSE {NoNet} :
              RAGtruthStep(sample, hn, qn)
    \/ \E sample \in Samples :
          \E hn \in IF /\ sample.source_info = "long"
                       /\ hhem_exchanges(run_method, sample.generated_text,
                                         source_texts_of(sample))
                    THEN HarnessHHEMNet ELSE {NoNet} :
            \E qn \in IF /\ sample.source_info = "long"
                         /\ qwen_exchanges(run_method, sample.generated_text,
                                           source_texts_of(sample), hn)
                      THEN HarnessQwenNet ELSE {NoNet} :
              LargeScaleStep(sample, hn, qn)
    \/ FinishRun

SpecHarness == HarnessInit /\ [][HarnessNext]_vars

-----------------------------------------------------------------------------
(* Claims about the harness loops (specification SpecHarness) *)

\* the loop body has just evaluated a sample with the run's method
Evaluated == step # None /\ call # NoCall /\ ret # None

\* C1: under HHEM_ONLY with a successful consistency score s, either harness
\* predicts a hallucination exactly when s is strictly below the threshold 0.5.
C1_ConsistencyBelowThreshold ==
    (Evaluated /\ run_method = HHEM_ONLY /\ HHEMSucceeded) =>
        (step.predicted <=> RLt(call.hhem_result.score, Rat(1, 2)))

\* the threshold each harness applies to a severity-axis score
SeverityThreshold ==
    IF harness = "large" /\ run_method = QWEN_ONLY THEN Rat(1, 5) ELSE Rat(1, 2)

\* C2: when the score used is the judgment score (QWEN_ONLY) or the ensemble
\* score (ENSEMBLE), either harness predicts a hallucination exactly when the
\* score is strictly above the threshold in force; equal or below is negative.
C2_SeverityAboveThreshold ==
    /\ (Evaluated /\ run_method = QWEN_ONLY /\ QwenSucceeded) =>
            /\ step.score = call.qwen_result.hallucination_score
            /\ step.predicted <=> RGt(step.score, SeverityThreshold)
    /\ (Evaluated /\ run_method = ENSEMBLE /\ ret.ensemble_score # None) =>
            /\ step.score = ret.ensemble_score
            /\ step.predicted <=> RGt(step.score, SeverityThreshold)

\* an ensemble score equal to the threshold was scored as not hallucinated
C2_Witness ==
    /\ Evaluated /\ harness = "ragtruth" /\ run_method = ENSEMBLE
    /\ HHEMSucceeded /\ QwenSucceeded
    /\ ret.ensemble_score = Rat(1, 2)
    /\ step.outcome = "scored" /\ ~step.predicted

ConfusionCells ==
    {"true_positives", "false_positives", "true_negatives", "false_negatives"}

\* the cell (predicted, actual) selects
CellOf(predicted, actual) ==
    IF predicted /\ actual THEN "true_positives"
    ELSE IF predicted /\ ~actual THEN "false_positives"
    ELSE IF ~predicted /\ ~actual THEN "true_negatives"
    ELSE "false_negatives"

\* C8: processing one sample increases exactly one confusion counter by 1, the
\* one chosen by (predicted, actual), when a score was produced for the sample,
\* and leaves all four unchanged when the evaluation failed or produced no
\* score for the method; no counter ever decreases.
C8_OneCellPerScoredSample ==
    [][(hpc = "loop" /\ index' = index + 1) =>
            /\ step'.score # None =>
                    \A c \in ConfusionCells :
                        metrics'[c] = metrics[c]
                            + (IF c = CellOf(step'.predicted, step'.has_hallucination)
                               THEN 1 ELSE 0)
            /\ step'.score = None =>
                    \A c \in ConfusionCells : metrics'[c] = metrics[c]
            /\ \A c \in ConfusionCells : metrics'[c] >= metrics[c]]_vars

\* TP + FP + TN + FN of the run
ConfusionTotal ==
    metrics.true_positives + metrics.false_positives
    + metrics.true_negatives + metrics.false_negatives

\* C27: in every reachable state of an evaluation run of either harness, for
\* every method: TP + FP + TN + FN <= successful_evaluations <= total_samples,
\* the two score collections together hold at most TP + FP + TN + FN entries,
\* every entry of hallucination_scores comes from a sample whose ground truth
\* is hallucinated and every entry of non_hallucination_scores from one whose
\* ground truth is not.
C27_CountsAndScores ==
    /\ [](metrics # None =>
            /\ ConfusionTotal <= metrics.successful_evaluations
            /\ metrics.successful_evaluations <= metrics.total_samples
            /\ Len(metrics.hallucination_scores)
                    + Len(metrics.non_hallucination_scores) <= ConfusionTotal)
    /\ [][(hpc = "idle" /\ hpc' = "loop") =>
            /\ metrics'.hallucination_scores = <<>>
            /\ metrics'.non_hallucination_scores = <<>>]_vars
    /\ [][hpc = "loop" =>
            /\ \/ metrics'.hallucination_scores = metrics.hallucination_scores
               \/ /\ index' = index + 1
                  /\ step'.has_hallucination
                  /\ metrics'.hallucination_scores =
                        Append(metrics.hallucination_scores, step'.score)
            /\ \/ metrics'.non_hallucination_scores = metrics.non_hallucination_scores
               \/ /\ index' = index + 1
                  /\ ~step'.has_hallucination
                  /\ metrics'.non_hallucination_scores =
                        Append(metrics.non_hallucination_scores, step'.score)]_vars

\* a finished run over a hallucinated and a non-hallucinated sample, each
\* with a score in its own collection
C27_Witness ==
    /\ hpc = "done"
    /\ harness = "ragtruth"
    /\ metrics.total_samples = 2
    /\ metrics.successful_evaluations = 2
    /\ ConfusionTotal = 2
    /\ Len(metrics.hallucination_scores) = 1
    /\ Len(metrics.non_hallucination_scores) = 1

\* C28: the two metric implementations agree: for every run that ends with
\* the same four confusion counts, the accuracy, precision, recall and f1 that
\* LargeScaleEvaluator.evaluate_samples stores at the end of the run equal the
\* values the EvaluationMetrics properties derive on demand, the all-zero and
\* zero-denominator cases included.
C28_MetricsAgree ==
    (hpc = "done" /\ harness = "large") =>
        /\ metrics.accuracy = accuracy(metrics)
        /\ metrics.precision = precision(metrics)
        /\ metrics.recall = recall(metrics)
        /\ metrics.f1_score = f1_score(metrics)

\* a finished run of evaluate_samples with one true positive and one false
\* negative: precision 1, recall 1/2, f1 2/3
C28_Witness ==
    /\ hpc = "done" /\ harness = "large"
    /\ metrics.true_positives = 1 /\ metrics.false_negatives = 1
    /\ metrics.false_positives = 0 /\ metrics.true_negatives = 0
    /\ metrics.precision = One
    /\ metrics.recall = Rat(1, 2)
    /\ metrics.f1_score = Rat(2, 3)

-----------------------------------------------------------------------------
(* EvaluationMetrics on arbitrary confusion counts (specification SpecMetrics) *)

MetricsInit ==
    /\ pc = "new"
    /\ hhem_evaluator = FALSE
    /\ qwen_evaluator = FALSE
    /\ call = NoCall
    /\ ret = None
    /\ harness = "none"
    /\ hpc = "idle"
    /\ run_method = "none"
    /\ index = 0
    /\ successes = None
    /\ step = None
    /\ metrics \in {[EvaluationMetrics EXCEPT
                        !.true_positives = tp, !.false_positives = fp,
                        !.true_negatives = tn, !.false_negatives = fn] :
                    tp \in 0..MaxCount, fp \in 0..MaxCount,
                    tn \in 0..MaxCount, fn \in 0..MaxCount}
    /\ derived = None
    /\ LoaderIdle
    /\ SampleIdle
    /\ BatchIdle
    /\ EnsembleIdle

\* a reader takes the four properties of an EvaluationMetrics object
ReadMetrics ==
    /\ derived = None
    /\ derived' = [accuracy |-> accuracy(metrics),
                   precision |-> precision(metrics),
                   recall |-> recall(metrics),
                   f1_score |-> f1_score(metrics)]
    /\ UNCHANGED <<evalVars, harnessVars, loaderVars, sampleVars, batchVars, ensembleVars>>

MetricsNext == ReadMetrics

SpecMetrics == MetricsInit /\ [][MetricsNext]_vars

\* x = num/den, or x = 0 when den = 0
IsRatio(x, num, den) ==
    IF den = 0 THEN x = Zero ELSE x.n * den = num * x.d

\* C9: accuracy = (TP+TN)/(TP+FP+TN+FN), precision = TP/(TP+FP),
\* recall = TP/(TP+FN), f1 = 2PR/(P+R), each exactly 0 when its denominator is
\* zero; TP=3, FP=1, TN=4, FN=2 gives 0.7, 0.75, 0.6 and 2/3.
C9_MetricFormulas ==
    derived # None =>
        LET TP == metrics.true_positives
            FP == metrics.false_positives
            TN == metrics.true_negatives
            FN == metrics.false_negatives
            P == derived.precision
            R == derived.recall
        IN  /\ IsRatio(derived.accuracy, TP + TN, TP + FP + TN + FN)
            /\ IsRatio(P, TP, TP + FP)
            /\ IsRatio(R, TP, TP + FN)
            /\ IF RAdd(P, R) = Zero THEN derived.f1_score = Zero
               ELSE RMul(derived.f1_score, RAdd(P, R)) = RMul(Rat(2, 1), RMul(P, R))
            /\ (TP = 3 /\ FP = 1 /\ TN = 4 /\ FN = 2) =>
                    derived = [accuracy |-> Rat(7, 10), precision |-> Rat(3, 4),
                               recall |-> Rat(3, 5), f1_score |-> Rat(2, 3)]
            /\ (TP = 0 /\ FP = 0) => P = Zero

\* the four properties of the worked example TP=3, FP=1, TN=4, FN=2 were read
C9_Witness ==
    /\ derived # None
    /\ metrics.true_positives = 3 /\ metrics.false_positives = 1
    /\ metrics.true_negatives = 4 /\ metrics.false_negatives = 2
    /\ derived.f1_score = Rat(2, 3)

-----------------------------------------------------------------------------
(* ragtruth_loader.py *)

TaskTypes == {"Summary", "QA", "ALL"}
SplitTypes == {"train", "test", "all"}

\* the source file: two records, one per task type
SourceRecords ==
    <<[source_id |-> "s1", task_type |-> "QA"],
      [source_id |-> "s2", task_type |-> "Summary"]>>

\* a response record without its id; source_id "s9" has no source record;
\* has_hallucination stands for a non-empty labels list
ResponseFields ==
    [source_id : {"s1", "s2", "s9"},
     split : {"train", "test"},
     has_hallucination : BOOLEAN]

\* the response files of up to MaxResponses records, ids in file order
ResponseFiles ==
    UNION {{[i \in 1..n |->
                [id |-> i, source_id |-> f[i].source_id, split |-> f[i].split,
                 has_hallucination |-> f[i].has_hallucination]] :
            f \in [1..n -> ResponseFields]} : n \in 0..MaxResponses}

\* {source.source_id: source for source in sources}: the last record wins
source_map(srcs) ==
    [sid \in {srcs[i].source_id : i \in 1..Len(srcs)} |->
        LET last == CHOOSE i \in 1..Len(srcs) :
                        /\ srcs[i].source_id = sid
                        /\ \A j \in (i + 1)..Len(srcs) : srcs[j].source_id # sid
        IN  srcs[last]]

\* variant: the split criterion is skipped when a task type is given
keeps_task_only(response, smap, task_type, split, has_hallucination) ==
    /\ task_type # "ALL" =>
            /\ response.source_id \in DOMAIN smap
            /\ smap[response.source_id].task_type = task_type
    /\ task_type = "ALL" => ~(split # "all" /\ response.split # split)
    /\ has_hallucination # None =>
            response.has_hallucination = has_hallucination.value

\* the filtering loop keeps a response
keeps(response, smap, task_type, split, has_hallucination) ==
    /\ task_type # "ALL" =>
            /\ response.source_id \in DOMAIN smap
            /\ smap[response.source_id].task_type = task_type
    /\ ~(split # "all" /\ response.split # split)
    /\ has_hallucination # None =>
            response.has_hallucination = has_hallucination.value

\* the filtering loop: the responses it keeps, in file order
SelectWhere(resps, smap, task_type, split, has_hallucination) ==
    LET kept(response) == keeps(response, smap, task_type, split, has_hallucination)
    IN  SelectSeq(resps, kept)

\* variant: a response without a source record is paired with some record
join_any(resps, smap) ==
    [i \in 1..Len(resps) |->
        [source |-> IF resps[i].source_id \in DOMAIN smap
                    THEN smap[resps[i].source_id]
                    ELSE smap[CHOOSE sid \in DOMAIN smap : TRUE],
         response |-> resps[i]]]

\* the loop that creates the samples: responses without a source are dropped
join(resps, smap) ==
    LET in_map(response) == response.source_id \in DOMAIN smap
        joinable == SelectSeq(resps, in_map)
    IN  [i \in 1..Len(joinable) |->
            [source |-> smap[joinable[i].source_id], response |-> joinable[i]]]

\* variant: random.seed is not applied, the generator keeps its state
seeded_unapplied(seed) == rng

\* the generator of module random, abstracted to a counter: random.seed sets
\* the state from the seed, a draw below m reads the state and advances it
seeded(seed) == seed % RngStates
randbelow(state, m) == [value |-> state % m, state |-> (state + 1) % RngStates]

\* random.sample on a short population: k draws from a shrinking pool,
\*   j = randbelow(n - i); result[i] = pool[j]; pool[j] = pool[n - i - 1]
RECURSIVE sample_pool(_, _, _, _)
sample_pool(state, pool, n, k) ==
    IF k = 0 THEN [result |-> <<>>, state |-> state]
    ELSE LET r == randbelow(state, n)
             j == r.value + 1
             rest == sample_pool(r.state, [pool EXCEPT ![j] = pool[n]], n - 1, k - 1)
         IN  [result |-> <<pool[j]>> \o rest.result, state |-> rest.state]

\* Python truthiness of max_samples: None and 0 are falsy
max_samples_given(max_samples) == max_samples # None /\ max_samples.value # 0

\* RAGtruthLoader.get_samples: the returned list, the joined list it was
\* drawn from, the generator state afterwards, and raised = TRUE when
\* random.sample rejects a negative count with ValueError
get_samples(resps, srcs, state, task_type, split, has_hallucination, max_samples, random_seed) ==
    LET smap == source_map(srcs)
        filtered_responses == SelectWhere(resps, smap, task_type, split, has_hallucination)
        joined == join(filtered_responses, smap)
        sampling == max_samples_given(max_samples) /\ Len(joined) > max_samples.value
        state1 == IF sampling /\ random_seed # None
                  THEN seeded(random_seed.value) ELSE state
        raised == sampling /\ max_samples.value < 0
        drawn == sample_pool(state1, joined, Len(joined), max_samples.value)
    IN  [raised |-> raised,
         filtered |-> joined,
         samples |-> IF raised THEN None
                     ELSE IF sampling THEN drawn.result ELSE joined,
         state |-> IF sampling /\ ~raised THEN drawn.state ELSE state1]

-----------------------------------------------------------------------------
(* The loader and its caller (specification SpecLoader) *)

\* an Optional argument that is given
Some(v) == [value |-> v]

HasHallucinationArgs == {None, Some(TRUE), Some(FALSE)}
MaxSampleArgs == {None} \cup {Some(k) : k \in (0 - 1)..(MaxResponses - 1)}
SeedArgs == {None, Some(1)}

LoaderInit ==
    /\ pc = "new"
    /\ hhem_evaluator = FALSE
    /\ qwen_evaluator = FALSE
    /\ call = NoCall
    /\ ret = None
    /\ HarnessIdle
    /\ MetricsIdle
    /\ SampleIdle
    /\ BatchIdle
    /\ EnsembleIdle
    /\ responses \in ResponseFiles
    /\ sources = SourceRecords
    /\ rng \in 0..(RngStates - 1)
    /\ lpc = "idle"
    /\ query = None
    /\ samples = None

\* one call of RAGtruthLoader.get_samples
GetSamples(task_type, split, has_hallucination, max_samples, random_seed) ==
    /\ lpc = "idle"
    /\ LET out == get_samples(responses, sources, rng, task_type, split,
                              has_hallucination, max_samples, random_seed)
       IN  /\ lpc' = IF out.raised THEN "raised" ELSE "returned"
           /\ samples' = out.samples
           /\ rng' = out.state
           /\ query' = [task_type |-> task_type, split |-> split,
                        has_hallucination |-> has_hallucination,
                        max_samples |-> max_samples, random_seed |-> random_seed,
                        filtered |-> out.filtered, earlier |-> None]
    /\ UNCHANGED <<responses, sources, evalVars, harnessVars, metricVars, sampleVars, batchVars, ensembleVars>>

\* other code of the process draws from the module-level generator of random
\* between two calls of get_samples
OtherDraw ==
    /\ lpc = "returned"
    /\ rng' = randbelow(rng, 2).state
    /\ UNCHANGED <<responses, sources, lpc, query, samples, evalVars, harnessVars,
                   metricVars, sampleVars, batchVars, ensembleVars>>

\* the caller calls get_samples once more with the arguments of the seeded
\* call that has just returned; query.earlier keeps the list the first call returned
CallAgain ==
    /\ lpc = "returned"
    /\ query.earlier = None
    /\ query.random_seed # None
    /\ LET Leave(out) ==
               /\ lpc' = IF out.raised THEN "raised" ELSE "returned"
               /\ samples' = out.samples
               /\ rng' = out.state
               /\ query' = [query EXCEPT !.earlier = Some(samples)]
       IN  Leave(get_samples(responses, sources, rng, query.task_type, query.split,
                             query.has_hallucination, query.max_samples,
                             query.random_seed))
    /\ UNCHANGED <<responses, sources, evalVars, harnessVars, metricVars, sampleVars, batchVars, ensembleVars>>

\* the caller takes the list (or the exception) and may call again
TakeSamples ==
    /\ lpc \in {"returned", "raised"}
    /\ lpc' = "idle"
    /\ query' = None
    /\ samples' = None
    /\ UNCHANGED <<responses, sources, rng, evalVars, harnessVars, metricVars, sampleVars, batchVars, ensembleVars>>

LoaderNext ==
    \/ \E t \in TaskTypes, sp \in SplitTypes, hh \in HasHallucinationArgs,
          k \in MaxSampleArgs, seed \in SeedArgs : GetSamples(t, sp, hh, k, seed)
    \/ TakeSamples

SpecLoader == LoaderInit /\ [][LoaderNext]_vars

\* the elements of a list
Elements(seq) == {seq[i] : i \in 1..Len(seq)}

\* C10: with max_samples = k given (k = 0 included) and F the filtered and
\* joined list, the result is all of F when len(F) <= k, and otherwise holds
\* exactly k pairwise distinct members of F.
C10_SampleSize ==
    (lpc = "returned" /\ query.max_samples # None) =>
        LET F == query.filtered
            k == query.max_samples.value
        IN  IF Len(F) <= k
            THEN samples = F
            ELSE /\ Len(samples) = k
                 /\ Elements(samples) \subseteq Elements(F)
                 /\ Cardinality(Elements(samples)) = k

\* what get_samples returns for the given filters without sampling
Selected(task_type, split, has_hallucination) ==
    get_samples(responses, sources, rng, task_type, split, has_hallucination,
                None, None).samples

\* C12: without sampling, get_samples(t, s, h) returns exactly the samples
\* common to get_samples(t), get_samples(s) and get_samples(h); filtering by
\* split and then by task selects the same as the reverse order; ALL and an
\* absent has_hallucination restrict nothing.
C12_FiltersIntersect ==
    (lpc = "returned" /\ query.max_samples = None) =>
        LET t == query.task_type
            sp == query.split
            hh == query.has_hallucination
            smap == source_map(sources)
            by_split == SelectWhere(responses, smap, "ALL", sp, None)
            by_task == SelectWhere(responses, smap, t, "all", None)
        IN  /\ Elements(samples) =
                    Elements(Selected(t, "all", None))
                    \cap Elements(Selected("ALL", sp, None))
                    \cap Elements(Selected("ALL", "all", hh))
            /\ SelectWhere(by_split, smap, t, "all", hh)
                    = SelectWhere(by_task, smap, "ALL", sp, hh)
            /\ samples = join(SelectWhere(by_split, smap, t, "all", hh), smap)
            /\ (t = "ALL" /\ sp = "all" /\ hh = None) =>
                    samples = join(responses, smap)

\* a call with all three filters given that keeps one joinable response and
\* rejects another
C12_Witness ==
    /\ lpc = "returned"
    /\ query.max_samples = None
    /\ query.task_type # "ALL"
    /\ query.split # "all"
    /\ query.has_hallucination # None
    /\ Len(samples) = 1
    /\ Len(Selected("ALL", "all", None)) = 2

\* C13: whatever the filters, every returned sample pairs a response of the
\* response file with a source record of the source file that carries the
\* same source_id; a response whose source_id has no source record yields no
\* sample.
C13_OnlyJoinedSamples ==
    lpc = "returned" =>
        \A i \in 1..Len(samples) :
            /\ samples[i].response \in Elements(responses)
            /\ samples[i].source \in Elements(sources)
            /\ samples[i].response.source_id = samples[i].source.source_id

\* a call without task filter whose filters accept a response that has no
\* source record, next to one that has
C13_Witness ==
    /\ lpc = "returned"
    /\ query.task_type = "ALL"
    /\ query.max_samples = None
    /\ Len(samples) = 1
    /\ \E i \in 1..Len(responses) :
            /\ responses[i].source_id \notin DOMAIN source_map(sources)
            /\ keeps(responses[i], source_map(sources), query.task_type, query.split,
                     query.has_hallucination)

-----------------------------------------------------------------------------
(* Seeded calls of get_samples made twice (specification SpecRepeat) *)

\* the caller makes a seeded call, other code may draw from the generator,
\* and the caller repeats the call
RepeatNext ==
    \/ \E t \in TaskTypes, sp \in SplitTypes, hh \in HasHallucinationArgs,
          k \in MaxSampleArgs, seed \in SeedArgs \ {None} :
            GetSamples(t, sp, hh, k, seed)
    \/ OtherDraw
    \/ CallAgain
    \/ TakeSamples

SpecRepeat == LoaderInit /\ [][RepeatNext]_vars

\* C11: a second call of get_samples with the same dataset, filters,
\* max_samples and non-null random_seed returns the same selected set as the
\* first, whatever was drawn from the generator between the two calls.
C11_SeededRepeatable ==
    (lpc = "returned" /\ query.earlier # None /\ query.random_seed # None) =>
        Elements(samples) = Elements(query.earlier.value)

\* a seeded second call that sampled 1 of 2 joined responses
C11_Witness ==
    /\ lpc = "returned"
    /\ query.earlier # None
    /\ query.random_seed # None
    /\ query.max_samples # None
    /\ query.max_samples.value >= 1
    /\ Len(query.filtered) > query.max_samples.value
    /\ Len(samples) = query.max_samples.value

-----------------------------------------------------------------------------
(* RAGtruthSample.source_texts (specification SpecSample) *)

\* values found in a source_info: strings, and values that are not strings
StringValues == {"", " ", "text"}
OtherValues == {"None", "0", "[]"}

\* a key that the mapping does not hold
Absent == "(absent)"

\* the shapes of source_info: a string, a mapping with or without the keys
\* passages and question and with other keys, or any other value
SourceInfos ==
    {[type |-> "str", value |-> v] : v \in StringValues}
    \cup [type : {"dict"},
          passages : StringValues \cup OtherValues \cup {Absent},
          question : StringValues \cup OtherValues \cup {Absent},
          others : SUBSET {"answer", "title"}]
    \cup {[type |-> "other", value |-> v] : v \in OtherValues}

\* str(value)
Stringified(value) == [str |-> value]

\* variant: a mapping without a recognized key yields no entry
RAGtruthSample_source_texts_bare(source_info) ==
    IF source_info.type = "str"
    THEN <<source_info.value>>
    ELSE IF source_info.type = "dict"
    THEN (IF source_info.passages # Absent THEN <<source_info.passages>> ELSE <<>>)
         \o (IF source_info.question # Absent
             THEN <<[prefix |-> "Question: ", value |-> source_info.question]>>
             ELSE <<>>)
    ELSE <<Stringified(source_info)>>

\* the property source_texts of a sample with the given source_info
RAGtruthSample_source_texts(source_info) ==
    IF source_info.type = "str"
    THEN <<source_info.value>>
    ELSE IF source_info.type = "dict"
    THEN LET texts ==
                (IF source_info.passages # Absent
                 THEN <<source_info.passages>> ELSE <<>>)
                \o (IF source_info.question # Absent
                    THEN <<[prefix |-> "Question: ", value |-> source_info.question]>>
                    ELSE <<>>)
         IN  IF texts = <<>> THEN <<Stringified(source_info)>> ELSE texts
    ELSE <<Stringified(source_info)>>

SampleInit ==
    /\ pc = "new"
    /\ hhem_evaluator = FALSE
    /\ qwen_evaluator = FALSE
    /\ call = NoCall
    /\ ret = None
    /\ HarnessIdle
    /\ MetricsIdle
    /\ LoaderIdle
    /\ SampleIdle
    /\ BatchIdle
    /\ EnsembleIdle

\* a caller reads sample.source_texts
ReadSourceTexts(source_info) ==
    /\ texts_read' = [source_info |-> source_info,
                      source_texts |-> RAGtruthSample_source_texts(source_info)]
    /\ UNCHANGED <<evalVars, harnessVars, metricVars, loaderVars, batchVars, ensembleVars>>

SampleNext == \E source_info \in SourceInfos : ReadSourceTexts(source_info)

SpecSample == SampleInit /\ [][SampleNext]_vars

\* C14: source_texts is never empty: a string gives the one-element list of
\* that string; a mapping gives one entry per recognized key present
\* (passages, question) and the single stringified mapping when neither is
\* present; any other value gives its single stringified form.
C14_SourceTextsNonEmpty ==
    texts_read # None =>
        LET info == texts_read.source_info
            texts == texts_read.source_texts
            recognized == {k \in {"passages", "question"} : info[k] # Absent}
        IN  /\ Len(texts) >= 1
            /\ info.type = "str" => texts = <<info.value>>
            /\ info.type = "other" => texts = <<Stringified(info)>>
            /\ (info.type = "dict" /\ recognized = {}) =>
                    texts = <<Stringified(info)>>
            /\ (info.type = "dict" /\ recognized # {}) =>
                    /\ Len(texts) = Cardinality(recognized)
                    /\ "passages" \in recognized => texts[1] = info.passages
                    /\ "question" \in recognized =>
                            texts[Len(texts)].value = info.question

\* the empty mapping has been read
C14_Witness ==
    /\ texts_read # None
    /\ texts_read.source_info.type = "dict"
    /\ texts_read.source_info.passages = Absent
    /\ texts_read.source_info.question = Absent
    /\ texts_read.source_info.others = {}
    /\ texts_read.source_texts = <<Stringified(texts_read.source_info)>>


-----------------------------------------------------------------------------
(* IntegratedHallucinationEvaluator.batch_evaluate (specification SpecBatch) *)

\* a batch holds at most MaxItems items
MaxItems == 2

\* an item of the evaluations list: a mapping with both texts, a mapping
\* without the two keys (the defaults '' and [] apply), or a value that is
\* not a mapping (its .get raises AttributeError)
BatchItems ==
    {[kind |-> "mapping", generated_text |-> "text", source_texts |-> "text"],
     [kind |-> "mapping", generated_text |-> "empty", source_texts |-> "none"],
     [kind |-> "other", generated_text |-> "empty", source_texts |-> "none"]}

Evaluations == UNION {[1..n -> BatchItems] : n \in 0..MaxItems}

\* network behaviour drawn in a batch: a failure, a score, and the null score
\* that makes evaluate raise
BatchHHEMNet ==
    {[kind |-> "timeout", score |-> Missing]}
    \cup {[kind |-> "ok", score |-> s] : s \in {Rat(1, 2), None}}

BatchQwenNet ==
    {[kind |-> "exception", score |-> Missing, confidence |-> Missing, keywords |-> {}],
     [kind |-> "json", score |-> Rat(1, 2), confidence |-> Rat(9, 10), keywords |-> {}]}

\* the body of the try block on one item: the outcome of evaluate, or
\* raised = TRUE when eval_data.get or evaluate raises
try_item(self_hhem, self_qwen, item, method, hhem_net, qwen_net) ==
    IF item.kind # "mapping"
    THEN [raised |-> TRUE, result |-> None,
          hhem_result |-> NotCalled, qwen_result |-> NotCalled]
    ELSE evaluate(self_hhem, self_qwen, item.generated_text, item.source_texts,
                  method, hhem_net, qwen_net)

\* the result built by the except branch for item number i
error_result(method, i) ==
    [IntegratedEvaluationResult(method) EXCEPT
        !.error_messages = <<<<"batch item error", i>>>>]

\* variant: an item whose evaluation raises appends nothing
batch_append_dropping(results, method, i, out) ==
    IF out.raised THEN results ELSE Append(results, out.result)

\* one iteration of the loop of batch_evaluate: the results list afterwards
batch_append(results, method, i, out) ==
    IF out.raised
    THEN Append(results, error_result(method, i))
    ELSE Append(results, out.result)

\* the harness-style constructor has built the evaluator
BatchInit ==
    /\ pc = "ready"
    /\ hhem_evaluator \in BOOLEAN
    /\ qwen_evaluator \in BOOLEAN
    /\ hhem_evaluator \/ qwen_evaluator
    /\ call = NoCall
    /\ ret = None
    /\ HarnessIdle
    /\ MetricsIdle
    /\ LoaderIdle
    /\ SampleIdle
    /\ BatchIdle
    /\ EnsembleIdle

\* batch_evaluate up to its loop
StartBatch(evaluations, method) ==
    /\ batch = None
    /\ batch' = [bpc |-> "loop", evaluations |-> evaluations, method |-> method,
                 results |-> <<>>, attempts |-> <<>>]
    /\ UNCHANGED <<evalVars, harnessVars, metricVars, loaderVars, sampleVars, ensembleVars>>

\* one iteration of the loop; attempts records what the try block did
BatchStep(hhem_net, qwen_net) ==
    /\ batch # None
    /\ batch.bpc = "loop"
    /\ Len(batch.attempts) < Len(batch.evaluations)
    /\ LET i == Len(batch.attempts) + 1
           Leave(out) ==
               batch' = [batch EXCEPT
                   !.results = batch_append(@, batch.method, i, out),
                   !.attempts = Append(@, [item |-> batch.evaluations[i],
                                           hhem_net |-> hhem_net,
                                           qwen_net |-> qwen_net,
                                           raised |-> out.raised,
                                           result |-> out.result])]
       IN  Leave(try_item(hhem_evaluator, qwen_evaluator, batch.evaluations[i],
                          batch.method, hhem_net, qwen_net))
    /\ UNCHANGED <<evalVars, harnessVars, metricVars, loaderVars, sampleVars, ensembleVars>>

\* the loop is over and batch_evaluate returns the results
ReturnBatch ==
    /\ batch # None
    /\ batch.bpc = "loop"
    /\ Len(batch.attempts) = Len(batch.evaluations)
    /\ batch' = [batch EXCEPT !.bpc = "returned"]
    /\ UNCHANGED <<evalVars, harnessVars, metricVars, loaderVars, sampleVars, ensembleVars>>

\* the network exchanges an item can reach
item_hhem_exchanges(item, method) ==
    item.kind = "mapping"
    /\ hhem_exchanges(method, item.generated_text, item.source_texts)

item_qwen_exchanges(item, method, hhem_net) ==
    item.kind = "mapping"
    /\ qwen_exchanges(method, item.generated_text, item.source_texts, hhem_net)

BatchNext ==
    \/ \E evaluations \in Evaluations, m \in EvaluationMethod :
          StartBatch(evaluations, m)
    \/ \E hn \in BatchHHEMNet \cup {NoNet}, qn \in BatchQwenNet \cup {NoNet} :
          /\ batch # None
          /\ Len(batch.attempts) < Len(batch.evaluations)
          /\ LET item == batch.evaluations[Len(batch.attempts) + 1]
             IN  /\ (hn = NoNet) <=> ~item_hhem_exchanges(item, batch.method)
                 /\ (qn = NoNet) <=> ~item_qwen_exchanges(item, batch.method, hn)
          /\ BatchStep(hn, qn)
    \/ ReturnBatch

SpecBatch == BatchInit /\ [][BatchNext]_vars


\* C23: batch_evaluate returns exactly one result per input item, in input
\* order (result i belongs to item i); an item whose evaluation raises yields
\* a success = false result with an error message at its own position, and
\* all later items are still evaluated.
C23_OneResultPerItem ==
    batch # None =>
        /\ Len(batch.results) = Len(batch.attempts)
        /\ batch.bpc = "returned" => Len(batch.results) = Len(batch.evaluations)
        /\ \A i \in 1..Len(batch.results) :
                LET tried == batch.attempts[i]
                    out == try_item(hhem_evaluator, qwen_evaluator,
                                    batch.evaluations[i], batch.method,
                                    tried.hhem_net, tried.qwen_net)
                IN  /\ tried.item = batch.evaluations[i]
                    /\ batch.results[i].method_used = batch.method
                    /\ IF out.raised
                       THEN /\ ~batch.results[i].success
                            /\ batch.results[i].error_messages # <<>>
                       ELSE batch.results[i] = out.result

\* a returned batch of two items: the evaluation of the first raised and the
\* second was evaluated with success
C23_Witness ==
    /\ batch # None
    /\ batch.bpc = "returned"
    /\ Len(batch.evaluations) = 2
    /\ batch.attempts[1].raised
    /\ batch.attempts[1].item.kind = "mapping"
    /\ ~batch.results[1].success
    /\ ~batch.attempts[2].raised
    /\ batch.results[2].success


-----------------------------------------------------------------------------
(* _compute_ensemble_result on the results evaluate hands to it             *)
(* (specification SpecEnsemble)                                             *)

\* the outcomes of a backend under ENSEMBLE: NotCalled when the backend is not
\* constructed, else its response; a null consistency score never gets as far
\* as the ensemble computation
EnsembleHHEMOutcomes ==
    {NotCalled}
    \cup {evaluate_consistency("text", "text", net) :
            net \in {n \in HHEMNet : ~(n.kind = "ok" /\ n.score = None)}}

EnsembleQwenOutcomes ==
    {NotCalled} \cup {evaluate_hallucination("text", "text", net) : net \in QwenNet}

\* the result as evaluate holds it when it reaches the ensemble block
before_ensemble(hhem_result, qwen_result) ==
    qwen_block(hhem_block(IntegratedEvaluationResult(ENSEMBLE), ENSEMBLE,
                          hhem_result # NotCalled, hhem_result),
               ENSEMBLE, qwen_result # NotCalled, qwen_result)

EnsembleInputs ==
    {before_ensemble(pair[1], pair[2]) :
        pair \in {p \in EnsembleHHEMOutcomes \X EnsembleQwenOutcomes :
                    ~(p[1] = NotCalled /\ p[2] = NotCalled)}}

\* two results agree on the per-backend fields; the text fields of a backend
\* are strings when it succeeded and None otherwise
SamePerBackend(a, b) ==
    /\ a.hhem_success = b.hhem_success
    /\ a.hhem_score = b.hhem_score
    /\ a.hhem_success => a.hhem_interpretation = b.hhem_interpretation
    /\ a.qwen_success = b.qwen_success
    /\ a.qwen_hallucination_score = b.qwen_hallucination_score
    /\ a.qwen_confidence = b.qwen_confidence
    /\ a.qwen_success =>
            /\ a.qwen_explanation = b.qwen_explanation
            /\ a.qwen_interpretation = b.qwen_interpretation

EnsembleFields == {"ensemble_score", "ensemble_confidence", "ensemble_interpretation"}

EnsembleInit ==
    /\ pc = "new"
    /\ hhem_evaluator = FALSE
    /\ qwen_evaluator = FALSE
    /\ call = NoCall
    /\ ret = None
    /\ HarnessIdle
    /\ MetricsIdle
    /\ LoaderIdle
    /\ SampleIdle
    /\ BatchIdle
    /\ EnsembleIdle

\* evaluate reaches its ensemble block with the given result
ComputeEnsemble(result) ==
    /\ ensemble = None
    /\ ensemble' = [input |-> result,
                    output |-> _compute_ensemble_result(result),
                    again |-> None]
    /\ UNCHANGED <<evalVars, harnessVars, metricVars, loaderVars, sampleVars, batchVars>>

\* a later evaluate reaches the block with a result that has the same
\* per-backend fields
ComputeAgain(result) ==
    /\ ensemble # None
    /\ ensemble.again = None
    /\ SamePerBackend(result, ensemble.input)
    /\ ensemble' = [ensemble EXCEPT
                        !.again = [input |-> result,
                                   output |-> _compute_ensemble_result(result)]]
    /\ UNCHANGED <<evalVars, harnessVars, metricVars, loaderVars, sampleVars, batchVars>>

EnsembleNext ==
    \/ \E result \in EnsembleInputs : ComputeEnsemble(result)
    \/ \E result \in EnsembleInputs : ComputeAgain(result)

SpecEnsemble == EnsembleInit /\ [][EnsembleNext]_vars

\* the function wrote nothing but the three ensemble fields
OnlyEnsembleWritten(input, output) ==
    \A f \in DOMAIN input : f \notin EnsembleFields => output[f] = input[f]

\* C26: _compute_ensemble_result is a pure function of the per-backend outcome
\* fields: it writes only ensemble_score, ensemble_confidence and
\* ensemble_interpretation, leaves every per-backend field, method_used and
\* error_messages unchanged, and two runs on equal per-backend fields give
\* equal ensemble fields.
C26_EnsemblePure ==
    ensemble # None =>
        /\ DOMAIN ensemble.output = DOMAIN ensemble.input
        /\ OnlyEnsembleWritten(ensemble.input, ensemble.output)
        /\ ensemble.again # None =>
                /\ OnlyEnsembleWritten(ensemble.again.input, ensemble.again.output)
                /\ \A f \in EnsembleFields :
                        ensemble.again.output[f] = ensemble.output[f]

\* two runs on results that differ in error_messages and agree on the
\* per-backend fields, each combining the judgment score alone
C26_Witness ==
    /\ ensemble # None
    /\ ensemble.again # None
    /\ ensemble.again.input.error_messages # ensemble.input.error_messages
    /\ ensemble.input.qwen_success
    /\ ensemble.output.ensemble_score = ensemble.input.qwen_hallucination_score
    /\ ensemble.again.output.ensemble_score = ensemble.output.ensemble_score

====
